---- MODULE Spec2Model ----
(***************************************************************************)
(* Model of app.py, the Streamlit front end of the Pedalboard demo.        *)
(*                                                                         *)
(* Streamlit re-executes the script from top to bottom after every widget  *)
(* interaction.  The state is therefore split in two:                      *)
(*   - the widget state the framework keeps between script runs            *)
(*     (checkbox, slider, uploader), changed by the user between runs;     *)
(*   - the locals of main() for the run in progress, the page the run has  *)
(*     emitted so far (ui) and the position of the run (pc).               *)
(* Floating point slider values are held in hundredths.                    *)
(***************************************************************************)
EXTENDS Integers, Sequences, FiniteSets, TLC

VARIABLES
    checkbox,       \* framework state: sidebar checkbox label -> BOOLEAN
    slider,         \* framework state: slider name -> value (hundredths)
    uploader,       \* framework state: file held by st.file_uploader, or NoFile
    pc,             \* position of the script run in progress
    enable,         \* locals enable_convolution .. enable_reverb of main()
    uploaded_file,  \* local uploaded_file of main()
    audio,          \* local audio of main()
    sample_rate,    \* local sample_rate of main()
    board,          \* local board of main()
    selected,       \* locals selected_compressor_threshold_db .. of main()
    effected,       \* local effected of main()
    ui,             \* elements the run has put on the page, in order
    error,          \* step whose exception ended the run, or "none"
    renderCalls,    \* number of board(audio) calls made by this run
    interactions,   \* number of user interactions so far
    lastWidget,     \* widget changed by the interaction that started this run
    lastChain,      \* plugins rendered by the previous run, or NoChain
    loaded,         \* paths this run has handed to librosa.load
    fileUploaded    \* whether the user has ever put a file in the uploader

vars == <<checkbox, slider, uploader, pc, enable, uploaded_file, audio,
          sample_rate, board, selected, effected, ui, error, renderCalls,
          interactions, lastWidget, lastChain, loaded, fileUploaded>>

locals == <<enable, uploaded_file, audio, sample_rate, board, selected, effected>>
widgets == <<checkbox, slider, uploader>>
history == <<interactions, lastWidget, lastChain, fileUploaded>>

----------------------------------------------------------------------------
(* Bounds *)

MaxInteractions == 3

----------------------------------------------------------------------------
(* Widgets declared by the script *)

Implemented == {"compressor", "gain", "reverb"}

Unimplemented == {"convolution", "chorus", "distortion", "hp", "ld",
                  "limiter", "lp", "phaser"}

Effects == Implemented \cup Unimplemented

\* second argument of each st.checkbox call
CheckboxDefault ==
    [e \in Effects |-> e = "gain"]

CompressorSliders == {"compressor_threshold_db", "compressor_ratio",
                      "compressor_attack_ms", "compressor_release_ms"}
GainSliders == {"gain_db"}
ReverbSliders == {"reverb_room_size", "reverb_damping", "reverb_wet_level",
                  "reverb_dry_level", "reverb_width", "reverb_freeze_mode"}

Sliders == CompressorSliders \cup GainSliders \cup ReverbSliders

SlidersOf(e) ==
    CASE e = "compressor" -> CompressorSliders
      [] e = "gain"       -> GainSliders
      [] e = "reverb"     -> ReverbSliders
      [] OTHER            -> {}

\* min_value of each st.slider call, in hundredths
SliderMin ==
    [compressor_threshold_db |-> -2400, compressor_ratio |-> 0,
     compressor_attack_ms |-> 10, compressor_release_ms |-> 10,
     gain_db |-> -2400,
     reverb_room_size |-> 0, reverb_damping |-> 0, reverb_wet_level |-> 0,
     reverb_dry_level |-> 0, reverb_width |-> 0, reverb_freeze_mode |-> 0]

\* max_value of each st.slider call, in hundredths
SliderMax ==
    [compressor_threshold_db |-> 2400, compressor_ratio |-> 1000,
     compressor_attack_ms |-> 10000, compressor_release_ms |-> 100000,
     gain_db |-> 2400,
     reverb_room_size |-> 100, reverb_damping |-> 100, reverb_wet_level |-> 100,
     reverb_dry_level |-> 100, reverb_width |-> 100, reverb_freeze_mode |-> 100]

\* value of each st.slider call: the attribute of a default-constructed plugin
SliderDefault ==
    [compressor_threshold_db |-> 0, compressor_ratio |-> 100,
     compressor_attack_ms |-> 100, compressor_release_ms |-> 10000,
     gain_db |-> 100,
     reverb_room_size |-> 50, reverb_damping |-> 50, reverb_wet_level |-> 33,
     reverb_dry_level |-> 40, reverb_width |-> 100, reverb_freeze_mode |-> 0]

\* positions of a slider the user is taken to choose between
SliderValues(s) == {SliderMin[s], SliderDefault[s], SliderMax[s]}

----------------------------------------------------------------------------
(* Audio *)

NoFile == "None"
Files == {"good.wav", "bad.wav"}

\* rate the script asks librosa.load to resample to
LOAD_SR == 44100

\* rate the script hands to wavfile.write
WAV_RATE == 44100

NoAudio == [source |-> "none", dtype |-> "none", samples |-> <<>>,
            rendered |-> FALSE, plugins |-> <<>>]

\* decoded content of the clips a run can load (thousandths of full scale)
Decoded(path) ==
    IF path = "good.wav" THEN <<100, -400, 250>> ELSE <<500, -1000, 750>>

\* librosa.example("vibeace", hq=True): path of the bundled sample clip
librosa_example == "vibeace"

\* librosa.load(path, sr=sr): decodes, resamples to sr and returns (audio, sr);
\* raises on a file it cannot decode
librosa_load(path, sr) ==
    IF path = "bad.wav"
    THEN [ok |-> FALSE, audio |-> NoAudio, sample_rate |-> 0]
    ELSE [ok |-> TRUE,
          audio |-> [source |-> path, dtype |-> "float32",
                     samples |-> Decoded(path),
                     rendered |-> FALSE, plugins |-> <<>>],
          sample_rate |-> sr]

Abs(x) == IF x < 0 THEN -x ELSE x

RECURSIVE MaxAbs(_)
MaxAbs(s) ==
    IF s = <<>> THEN 0
    ELSE LET m == MaxAbs(Tail(s))
         IN  IF Abs(Head(s)) > m THEN Abs(Head(s)) ELSE m

\* integer division truncating toward zero, as np.int16 does on a float
TruncDiv(a, b) == IF a < 0 THEN -((-a) \div b) ELSE a \div b

\* np.int16(audio_data / np.max(np.abs(audio_data)) * 32767 * 0.9)
_normalize_16_bit(audio_data) ==
    LET m == MaxAbs(audio_data.samples)
    IN  [audio_data EXCEPT
            !.dtype = "int16",
            !.samples = [i \in 1..Len(audio_data.samples) |->
                            IF m = 0 THEN 0
                            ELSE TruncDiv(audio_data.samples[i] * 294903, m * 10)]]

\* _audio_to_virtualfile writing at another rate than the one loaded at
audio_to_virtualfile_22050(audio_data, normalize_16) ==
    [rate |-> 22050,
     data |-> IF normalize_16 THEN _normalize_16_bit(audio_data) ELSE audio_data]

\* the WAV file written into the BytesIO
_audio_to_virtualfile(audio_data, normalize_16) ==
    [rate |-> WAV_RATE,
     data |-> IF normalize_16 THEN _normalize_16_bit(audio_data) ELSE audio_data]

\* the figure: the buffer drawn and the rate of its time axis
_plot_waveform(audio_data, sr) ==
    [data |-> audio_data, rate |-> sr]

----------------------------------------------------------------------------
(* Pedalboard *)

NoChain == <<[plugin |-> "none"]>>

NoBoard == [plugins |-> NoChain, sample_rate |-> 0]

Pedalboard(plugins, sr) == [plugins |-> plugins, sample_rate |-> sr]

Compressor(threshold_db, ratio, attack_ms, release_ms) ==
    [plugin |-> "Compressor", threshold_db |-> threshold_db, ratio |-> ratio,
     attack_ms |-> attack_ms, release_ms |-> release_ms]

Gain(gain_db) == [plugin |-> "Gain", gain_db |-> gain_db]

Reverb(room_size, damping, wet_level, dry_level, width, freeze_mode) ==
    [plugin |-> "Reverb", room_size |-> room_size, damping |-> damping,
     wet_level |-> wet_level, dry_level |-> dry_level, width |-> width,
     freeze_mode |-> freeze_mode]

\* board.append(plugin)
BoardAppend(b, plugin) == [b EXCEPT !.plugins = Append(b.plugins, plugin)]

\* board(audio): the buffer run through the plugins of the board, in order
BoardCall(b, audio_data) ==
    [audio_data EXCEPT !.rendered = TRUE, !.plugins = b.plugins]

----------------------------------------------------------------------------
(* State of a script run *)

Unset == -99999

NoLocals ==
    /\ enable' = [e \in Effects |-> FALSE]
    /\ uploaded_file' = NoFile
    /\ audio' = NoAudio
    /\ sample_rate' = 0
    /\ board' = NoBoard
    /\ selected' = [s \in Sliders |-> Unset]
    /\ effected' = NoAudio

Element(widget, label, data, rate) ==
    [widget |-> widget, label |-> label, data |-> data, rate |-> rate]

Init ==
    /\ checkbox = CheckboxDefault
    /\ slider = [s \in Sliders |-> SliderDefault[s]]
    /\ uploader = NoFile
    /\ pc = "start"
    /\ enable = [e \in Effects |-> FALSE]
    /\ uploaded_file = NoFile
    /\ audio = NoAudio
    /\ sample_rate = 0
    /\ board = NoBoard
    /\ selected = [s \in Sliders |-> Unset]
    /\ effected = NoAudio
    /\ ui = <<>>
    /\ error = "none"
    /\ renderCalls = 0
    /\ interactions = 0
    /\ lastWidget = "none"
    /\ lastChain = NoChain
    /\ loaded = <<>>
    /\ fileUploaded = FALSE

----------------------------------------------------------------------------
(* The script, statement by statement *)

\* st.set_page_config, st.title, st.sidebar.subheader, then main()
Start ==
    /\ pc = "start"
    /\ ui' = Append(ui, Element("title", "Spotify Pedalboard", NoAudio, 0))
    /\ pc' = "sidebar"
    /\ UNCHANGED <<widgets, locals, error, renderCalls, history, loaded>>

\* the eleven st.checkbox calls: each returns the state of its widget
SidebarCheckboxes ==
    /\ pc = "sidebar"
    /\ enable' = checkbox
    /\ pc' = "uploader"
    /\ UNCHANGED <<widgets, uploaded_file, audio, sample_rate, board, selected,
                   effected, ui, error, renderCalls, history, loaded>>

\* uploaded_file = c1.file_uploader("Upload wav file", type=["wav"])
FileUploader ==
    /\ pc = "uploader"
    /\ uploaded_file' = uploader
    /\ pc' = "load"
    /\ UNCHANGED <<widgets, enable, audio, sample_rate, board, selected,
                   effected, ui, error, renderCalls, history, loaded>>

\* LoadAudio catching the exception and carrying on
LoadAudioSwallows ==
    /\ pc = "load"
    /\ loaded' = Append(loaded, IF uploaded_file = NoFile
                                THEN librosa_example ELSE uploaded_file)
    /\ LET r == IF uploaded_file = NoFile
                THEN librosa_load(librosa_example, LOAD_SR)
                ELSE librosa_load(uploaded_file, LOAD_SR)
       IN  IF r.ok
           THEN /\ audio' = r.audio
                /\ sample_rate' = r.sample_rate
                /\ error' = error
           ELSE /\ error' = "load"
                /\ UNCHANGED <<audio, sample_rate>>
    /\ pc' = "plot_input"
    /\ UNCHANGED <<widgets, enable, uploaded_file, board, selected, effected,
                   ui, renderCalls, history>>

\* LoadAudio with the test on uploaded_file inverted
LoadAudioInverted ==
    /\ pc = "load"
    /\ loaded' = Append(loaded, IF uploaded_file # NoFile
                                THEN librosa_example ELSE "good.wav")
    /\ LET r == IF uploaded_file # NoFile
                THEN librosa_load(librosa_example, LOAD_SR)
                ELSE librosa_load("good.wav", LOAD_SR)
       IN  /\ audio' = r.audio
           /\ sample_rate' = r.sample_rate
           /\ pc' = "plot_input"
           /\ error' = error
    /\ UNCHANGED <<widgets, enable, uploaded_file, board, selected, effected,
                   ui, renderCalls, history>>

\* if uploaded_file is None: load the sample clip, else load the upload
LoadAudio ==
    /\ pc = "load"
    /\ loaded' = Append(loaded, IF uploaded_file = NoFile
                                THEN librosa_example ELSE uploaded_file)
    /\ LET r == IF uploaded_file = NoFile
                THEN librosa_load(librosa_example, LOAD_SR)
                ELSE librosa_load(uploaded_file, LOAD_SR)
       IN  IF r.ok
           THEN /\ audio' = r.audio
                /\ sample_rate' = r.sample_rate
                /\ pc' = "plot_input"
                /\ error' = error
           ELSE /\ pc' = "error"
                /\ error' = "load"
                /\ UNCHANGED <<audio, sample_rate>>
    /\ UNCHANGED <<widgets, enable, uploaded_file, board, selected, effected,
                   ui, renderCalls, history>>

\* st.pyplot(_plot_waveform(audio, sample_rate))
PlotInput ==
    /\ pc = "plot_input"
    /\ LET fig == _plot_waveform(audio, sample_rate)
       IN  ui' = Append(ui, Element("pyplot", "input", fig.data, fig.rate))
    /\ pc' = "play_input"
    /\ UNCHANGED <<widgets, locals, error, renderCalls, history, loaded>>

\* c2.caption("Currently loaded audio file"); c2.audio(_audio_to_virtualfile(audio))
PlayInput ==
    /\ pc = "play_input"
    /\ LET vf == _audio_to_virtualfile(audio, FALSE)
       IN  ui' = Append(ui, Element("audio", "Currently loaded audio file",
                                    vf.data, vf.rate))
    /\ pc' = "create_board"
    /\ UNCHANGED <<widgets, locals, error, renderCalls, history, loaded>>

\* CreateBoard keeping the plugins of the previous run
CreateBoardStale ==
    /\ pc = "create_board"
    /\ board' = Pedalboard(IF lastChain = NoChain THEN <<>> ELSE lastChain,
                           sample_rate)
    /\ pc' = "convolution"
    /\ UNCHANGED <<widgets, enable, uploaded_file, audio, sample_rate, selected,
                   effected, ui, error, renderCalls, history, loaded>>

\* board = Pedalboard([], sample_rate=sample_rate)
CreateBoard ==
    /\ pc = "create_board"
    /\ board' = Pedalboard(<<>>, sample_rate)
    /\ pc' = "convolution"
    /\ UNCHANGED <<widgets, enable, uploaded_file, audio, sample_rate, selected,
                   effected, ui, error, renderCalls, history, loaded>>

\* if enable_x: with st.expander(label): st.warning("Not yet implemented")
NotYetImplemented(e, label, next) ==
    /\ pc = e
    /\ ui' = IF enable[e]
             THEN Append(ui, Element("warning", label, NoAudio, 0))
             ELSE ui
    /\ pc' = next
    /\ UNCHANGED <<widgets, locals, error, renderCalls, history, loaded>>

ConvolutionBranch == NotYetImplemented("convolution", "Convolution", "compressor")

\* the sliders of the Compressor expander
CompressorSelected ==
    [selected EXCEPT
        !["compressor_threshold_db"] = slider["compressor_threshold_db"],
        !["compressor_ratio"] = slider["compressor_ratio"],
        !["compressor_attack_ms"] = slider["compressor_attack_ms"],
        !["compressor_release_ms"] = slider["compressor_release_ms"]]

\* CompressorPlugin with threshold and ratio wired to each other's slider
CompressorPluginCrossed(sel) ==
    Compressor(sel["compressor_ratio"], sel["compressor_threshold_db"],
               sel["compressor_attack_ms"], sel["compressor_release_ms"])

\* the plugin the Compressor expander appends, from the values sel
CompressorPlugin(sel) ==
    Compressor(sel["compressor_threshold_db"], sel["compressor_ratio"],
               sel["compressor_attack_ms"], sel["compressor_release_ms"])

CompressorBranch ==
    /\ pc = "compressor"
    /\ IF enable["compressor"]
       THEN /\ selected' = CompressorSelected
            /\ board' = BoardAppend(board, CompressorPlugin(selected'))
       ELSE UNCHANGED <<selected, board>>
    /\ pc' = "chorus"
    /\ UNCHANGED <<widgets, enable, uploaded_file, audio, sample_rate,
                   effected, ui, error, renderCalls, history, loaded>>

ChorusBranch == NotYetImplemented("chorus", "Chorus", "distortion")

\* the Distortion expander appending a plugin
DistortionBranchAppends ==
    /\ pc = "distortion"
    /\ IF enable["distortion"]
       THEN /\ ui' = Append(ui, Element("warning", "Distortion", NoAudio, 0))
            /\ board' = BoardAppend(board, [plugin |-> "Distortion"])
       ELSE UNCHANGED <<ui, board>>
    /\ pc' = "gain"
    /\ UNCHANGED <<widgets, enable, uploaded_file, audio, sample_rate, selected,
                   effected, error, renderCalls, history, loaded>>

DistortionBranch == NotYetImplemented("distortion", "Distortion", "gain")

\* the plugin the Gain expander appends, from the values sel
GainPlugin(sel) == Gain(sel["gain_db"])

\* GainBranch putting the plugin at the head of the chain
GainBranchPrepends ==
    /\ pc = "gain"
    /\ IF enable["gain"]
       THEN /\ selected' = [selected EXCEPT !["gain_db"] = slider["gain_db"]]
            /\ board' = [board EXCEPT
                            !.plugins = <<GainPlugin(selected')>> \o @]
       ELSE UNCHANGED <<selected, board>>
    /\ pc' = "hp"
    /\ UNCHANGED <<widgets, enable, uploaded_file, audio, sample_rate,
                   effected, ui, error, renderCalls, history, loaded>>

GainBranch ==
    /\ pc = "gain"
    /\ IF enable["gain"]
       THEN /\ selected' = [selected EXCEPT !["gain_db"] = slider["gain_db"]]
            /\ board' = BoardAppend(board, GainPlugin(selected'))
       ELSE UNCHANGED <<selected, board>>
    /\ pc' = "hp"
    /\ UNCHANGED <<widgets, enable, uploaded_file, audio, sample_rate,
                   effected, ui, error, renderCalls, history, loaded>>

HighpassBranch == NotYetImplemented("hp", "Highpass Filter", "ld")

LadderBranch == NotYetImplemented("ld", "Ladder Filter", "limiter")

LimiterBranch == NotYetImplemented("limiter", "Limiter", "lp")

LowpassBranch == NotYetImplemented("lp", "Lowpass Filter", "phaser")

PhaserBranch == NotYetImplemented("phaser", "Phaser", "reverb")

\* the sliders of the Reverb expander
ReverbSelected ==
    [selected EXCEPT
        !["reverb_room_size"] = slider["reverb_room_size"],
        !["reverb_damping"] = slider["reverb_damping"],
        !["reverb_wet_level"] = slider["reverb_wet_level"],
        !["reverb_dry_level"] = slider["reverb_dry_level"],
        !["reverb_width"] = slider["reverb_width"],
        !["reverb_freeze_mode"] = slider["reverb_freeze_mode"]]

\* the plugin the Reverb expander appends, from the values sel
ReverbPlugin(sel) ==
    Reverb(sel["reverb_room_size"], sel["reverb_damping"],
           sel["reverb_wet_level"], sel["reverb_dry_level"],
           sel["reverb_width"], sel["reverb_freeze_mode"])

\* ReverbBranch guarded by the Gain checkbox
ReverbBranchOnGain ==
    /\ pc = "reverb"
    /\ IF enable["gain"]
       THEN /\ selected' = ReverbSelected
            /\ board' = BoardAppend(board, ReverbPlugin(selected'))
       ELSE UNCHANGED <<selected, board>>
    /\ pc' = "debug"
    /\ UNCHANGED <<widgets, enable, uploaded_file, audio, sample_rate,
                   effected, ui, error, renderCalls, history, loaded>>

ReverbBranch ==
    /\ pc = "reverb"
    /\ IF enable["reverb"]
       THEN /\ selected' = ReverbSelected
            /\ board' = BoardAppend(board, ReverbPlugin(selected'))
       ELSE UNCHANGED <<selected, board>>
    /\ pc' = "debug"
    /\ UNCHANGED <<widgets, enable, uploaded_file, audio, sample_rate,
                   effected, ui, error, renderCalls, history, loaded>>

\* with st.sidebar: st.subheader("Debug"); st.write(board)
Debug ==
    /\ pc = "debug"
    /\ ui' = Append(ui, Element("write", "Debug",
                                [NoAudio EXCEPT !.plugins = board.plugins],
                                board.sample_rate))
    /\ pc' = "render"
    /\ UNCHANGED <<widgets, locals, error, renderCalls, history, loaded>>

\* effected = board(audio); the library call either returns or raises
Render ==
    /\ pc = "render"
    /\ renderCalls' = renderCalls + 1
    /\ \E raises \in BOOLEAN :
          IF raises
          THEN /\ pc' = "error"
               /\ error' = "render"
               /\ effected' = effected
          ELSE /\ effected' = BoardCall(board, audio)
               /\ pc' = "plot_output"
               /\ error' = error
    /\ UNCHANGED <<widgets, enable, uploaded_file, audio, sample_rate, board,
                   selected, ui, history, loaded>>

\* st.pyplot(_plot_waveform(effected, sample_rate))
PlotOutput ==
    /\ pc = "plot_output"
    /\ LET fig == _plot_waveform(effected, sample_rate)
       IN  ui' = Append(ui, Element("pyplot", "output", fig.data, fig.rate))
    /\ pc' = "play_output"
    /\ UNCHANGED <<widgets, locals, error, renderCalls, history, loaded>>

\* PlayOutput playing the loaded buffer instead of the rendered one
PlayOutputUnprocessed ==
    /\ pc = "play_output"
    /\ LET vf == _audio_to_virtualfile(audio, FALSE)
       IN  ui' = Append(ui, Element("audio", "output", vf.data, vf.rate))
    /\ pc' = "download"
    /\ UNCHANGED <<widgets, locals, error, renderCalls, history, loaded>>

\* st.audio(_audio_to_virtualfile(effected))
PlayOutput ==
    /\ pc = "play_output"
    /\ LET vf == _audio_to_virtualfile(effected, FALSE)
       IN  ui' = Append(ui, Element("audio", "output", vf.data, vf.rate))
    /\ pc' = "download"
    /\ UNCHANGED <<widgets, locals, error, renderCalls, history, loaded>>

\* st.download_button("Dowload effected", _audio_to_virtualfile(effected), ...)
DownloadButton ==
    /\ pc = "download"
    /\ LET vf == _audio_to_virtualfile(effected, FALSE)
       IN  ui' = Append(ui, Element("download_button", "Dowload effected",
                                    vf.data, vf.rate))
    /\ pc' = "done"
    /\ UNCHANGED <<widgets, locals, error, renderCalls, history, loaded>>

----------------------------------------------------------------------------
(* The user: one widget interaction, which makes the framework re-execute   *)
(* the script with fresh locals and an empty page                           *)

Idle == pc \in {"done", "error"}

Rerun(widget) ==
    /\ interactions < MaxInteractions
    /\ interactions' = interactions + 1
    /\ lastWidget' = widget
    /\ lastChain' = IF renderCalls > 0 THEN board.plugins ELSE NoChain
    /\ pc' = "start"
    /\ NoLocals
    /\ ui' = <<>>
    /\ error' = "none"
    /\ renderCalls' = 0
    /\ loaded' = <<>>

ToggleCheckbox ==
    /\ Idle
    /\ \E e \in Effects :
          /\ checkbox' = [checkbox EXCEPT ![e] = ~checkbox[e]]
          /\ Rerun(e)
    /\ UNCHANGED <<slider, uploader, fileUploaded>>

\* a slider can be moved only if the last run put it on the page
MoveSlider ==
    /\ Idle
    /\ \E s \in Sliders :
          /\ selected[s] # Unset
          /\ \E v \in SliderValues(s) \ {slider[s]} :
                slider' = [slider EXCEPT ![s] = v]
          /\ Rerun(s)
    /\ UNCHANGED <<checkbox, uploader, fileUploaded>>

UploadFile ==
    /\ Idle
    /\ \E f \in Files \ {uploader} : uploader' = f
    /\ fileUploaded' = TRUE
    /\ Rerun("uploader")
    /\ UNCHANGED <<checkbox, slider>>

\* the uploader's delete button
RemoveFile ==
    /\ Idle
    /\ uploader # NoFile
    /\ uploader' = NoFile
    /\ Rerun("uploader")
    /\ UNCHANGED <<checkbox, slider, fileUploaded>>

Next ==
    \/ Start
    \/ SidebarCheckboxes
    \/ FileUploader
    \/ LoadAudio
    \/ PlotInput
    \/ PlayInput
    \/ CreateBoard
    \/ ConvolutionBranch
    \/ CompressorBranch
    \/ ChorusBranch
    \/ DistortionBranch
    \/ GainBranch
    \/ HighpassBranch
    \/ LadderBranch
    \/ LimiterBranch
    \/ LowpassBranch
    \/ PhaserBranch
    \/ ReverbBranch
    \/ Debug
    \/ Render
    \/ PlotOutput
    \/ PlayOutput
    \/ DownloadButton
    \/ ToggleCheckbox
    \/ MoveSlider
    \/ UploadFile
    \/ RemoveFile

Spec == Init /\ [][Next]_vars

----------------------------------------------------------------------------
(* One script run from any state of the eleven checkboxes and the uploader, *)
(* the sliders at their defaults                                            *)

InitAnyCheckboxes ==
    /\ checkbox \in [Effects -> BOOLEAN]
    /\ slider = [s \in Sliders |-> SliderDefault[s]]
    /\ uploader \in {NoFile} \cup Files
    /\ pc = "start"
    /\ enable = [e \in Effects |-> FALSE]
    /\ uploaded_file = NoFile
    /\ audio = NoAudio
    /\ sample_rate = 0
    /\ board = NoBoard
    /\ selected = [s \in Sliders |-> Unset]
    /\ effected = NoAudio
    /\ ui = <<>>
    /\ error = "none"
    /\ renderCalls = 0
    /\ interactions = 0
    /\ lastWidget = "none"
    /\ lastChain = NoChain
    /\ loaded = <<>>
    /\ fileUploaded = (uploader # NoFile)

NextRun ==
    \/ Start
    \/ SidebarCheckboxes
    \/ FileUploader
    \/ LoadAudio
    \/ PlotInput
    \/ PlayInput
    \/ CreateBoard
    \/ ConvolutionBranch
    \/ CompressorBranch
    \/ ChorusBranch
    \/ DistortionBranch
    \/ GainBranch
    \/ HighpassBranch
    \/ LadderBranch
    \/ LimiterBranch
    \/ LowpassBranch
    \/ PhaserBranch
    \/ ReverbBranch
    \/ Debug
    \/ Render
    \/ PlotOutput
    \/ PlayOutput
    \/ DownloadButton

SpecAnyCheckboxes == InitAnyCheckboxes /\ [][NextRun]_vars

----------------------------------------------------------------------------
(* Properties *)

PluginOf(e) ==
    CASE e = "compressor" -> "Compressor"
      [] e = "gain"       -> "Gain"
      [] e = "reverb"     -> "Reverb"
      [] OTHER            -> "none"

Count(chain, name) ==
    Cardinality({i \in DOMAIN chain : chain[i].plugin = name})

Rank(name) ==
    CASE name = "Compressor" -> 1
      [] name = "Gain"       -> 2
      [] name = "Reverb"     -> 3
      [] OTHER               -> 0

\* the chain the widget state of a run calls for
ChainFor(cb, sl) ==
    (IF cb["compressor"]
     THEN <<Compressor(sl["compressor_threshold_db"], sl["compressor_ratio"],
                       sl["compressor_attack_ms"], sl["compressor_release_ms"])>>
     ELSE <<>>)
    \o (IF cb["gain"] THEN <<Gain(sl["gain_db"])>> ELSE <<>>)
    \o (IF cb["reverb"]
        THEN <<Reverb(sl["reverb_room_size"], sl["reverb_damping"],
                      sl["reverb_wet_level"], sl["reverb_dry_level"],
                      sl["reverb_width"], sl["reverb_freeze_mode"])>>
        ELSE <<>>)

Warnings == {i \in DOMAIN ui : ui[i].widget = "warning"}

AfterRender == {"plot_output", "play_output", "download", "done"}

\* C1: when the board is handed to render it holds a Compressor, a Gain and a
\* Reverb exactly when the checkbox of each is checked, each at most once, and
\* nothing else, whatever the eleven checkboxes are.
C1_ChainMatchesCheckboxes ==
    pc = "render" =>
        /\ \A e \in Implemented :
              Count(board.plugins, PluginOf(e)) = IF checkbox[e] THEN 1 ELSE 0
        /\ \A i \in DOMAIN board.plugins :
              board.plugins[i].plugin \in {"Compressor", "Gain", "Reverb"}
        /\ Len(board.plugins) \in 0..3

C1_Witness ==
    /\ pc = "render"
    /\ \A e \in Effects : checkbox[e]
    /\ Len(board.plugins) = 3

\* C2: an unimplemented effect's checkbox only shows a warning: the page holds
\* one warning per checked unimplemented effect, and a run started by toggling
\* such a checkbox hands render the same chain as the run before it.
C2_UnimplementedLeaveChain ==
    pc = "render" =>
        /\ Cardinality(Warnings) = Cardinality({e \in Unimplemented : checkbox[e]})
        /\ (lastWidget \in Unimplemented /\ lastChain # NoChain)
              => board.plugins = lastChain

C2_Witness ==
    /\ pc = "render"
    /\ lastWidget \in Unimplemented
    /\ checkbox[lastWidget]
    /\ lastChain # NoChain
    /\ Len(board.plugins) >= 1
    /\ Cardinality(Warnings) >= 1

\* C3: every run starts from an empty chain, so the chain never accumulates
\* across runs: no plugin occurs twice and the chain handed to render is the
\* one the widget state of that run calls for.
C3_SingleRunScope ==
    /\ pc = "convolution" => board.plugins = <<>>
    /\ board # NoBoard =>
          \A e \in Implemented : Count(board.plugins, PluginOf(e)) <= 1
    /\ pc = "render" => board.plugins = ChainFor(checkbox, slider)

C3_Witness ==
    /\ pc = "render"
    /\ interactions >= 2
    /\ lastWidget = "gain"
    /\ checkbox["gain"]
    /\ lastChain # NoChain
    /\ Len(lastChain) >= 1

\* C4: the rate the audio is loaded at, the rate of the board, the rate of
\* both waveform plots and the rate of every WAV file written are all 44100.
C4_SampleRateConsistent ==
    /\ audio # NoAudio => (sample_rate = LOAD_SR /\ sample_rate = 44100)
    /\ board # NoBoard => board.sample_rate = sample_rate
    /\ \A i \in DOMAIN ui :
          ui[i].widget \in {"pyplot", "audio", "download_button"}
             => (ui[i].rate = sample_rate /\ ui[i].rate = 44100)

C4_Witness ==
    /\ pc = "done"
    /\ uploaded_file = "good.wav"
    /\ Len(board.plugins) >= 1

\* C5: a run reads the checkboxes, loads, shows the input, builds the chain,
\* renders once with every enabled effect appended, then shows, plays and
\* offers the rendered buffer, never the unprocessed one.
C5_FixedOrder ==
    /\ renderCalls <= 1
    /\ loaded # <<>> => enable = checkbox
    /\ board # NoBoard => audio # NoAudio
    /\ pc \in AfterRender <=> (renderCalls = 1 /\ error = "none")
    /\ renderCalls = 1 =>
          \A e \in Implemented :
              enable[e] => Count(board.plugins, PluginOf(e)) = 1
    /\ pc \in AfterRender =>
          /\ effected = BoardCall(board, audio)
          /\ effected # audio
    /\ pc = "done" =>
          LET n == Len(ui)
          IN  /\ n >= 7
              /\ ui[1].widget = "title"
              /\ ui[2].widget = "pyplot" /\ ui[2].data = audio
              /\ ui[3].widget = "audio" /\ ui[3].data = audio
              /\ \A i \in 4..(n - 4) : ui[i].widget = "warning"
              /\ ui[n - 3].widget = "write"
              /\ ui[n - 3].data.plugins = board.plugins
              /\ ui[n - 2].widget = "pyplot" /\ ui[n - 2].data = effected
              /\ ui[n - 1].widget = "audio" /\ ui[n - 1].data = effected
              /\ ui[n].widget = "download_button" /\ ui[n].data = effected

C5_Witness ==
    /\ pc = "done"
    /\ Len(board.plugins) >= 2
    /\ Cardinality(Warnings) >= 1

\* C6: an exception in load or render ends the run at that step: after a load
\* failure no board exists, nothing was rendered and the page shows no audio;
\* after a render failure the page shows no output.
C6_FailuresPropagate ==
    /\ pc = "error" <=> error # "none"
    /\ error = "load" =>
          /\ audio = NoAudio
          /\ board = NoBoard
          /\ renderCalls = 0
          /\ effected = NoAudio
          /\ \A i \in DOMAIN ui : ui[i].widget = "title"
    /\ error = "render" =>
          /\ effected = NoAudio
          /\ \A i \in DOMAIN ui :
                /\ ui[i].widget # "download_button"
                /\ ui[i].label # "output"

C6_Witness ==
    /\ pc = "error"
    /\ error = "load"
    /\ uploaded_file = "bad.wav"
    /\ checkbox["gain"]

\* C7: in the chain handed to render Compressor precedes Gain and Gain
\* precedes Reverb, whatever the order the checkboxes were toggled in.
C7_ChainOrder ==
    pc = "render" =>
        \A i, j \in DOMAIN board.plugins :
            i < j => Rank(board.plugins[i].plugin) < Rank(board.plugins[j].plugin)

C7_Witness ==
    /\ pc = "render"
    /\ lastWidget = "compressor"
    /\ Len(board.plugins) = 3

\* C8 as stated: the sample clip is loaded exactly when no file has ever been
\* uploaded, and once a file has been uploaded the sample clip is never the
\* one rendered.
C8_Original ==
    /\ Len(loaded) <= 1
    /\ audio # NoAudio => audio.source = loaded[1]
    /\ effected # NoAudio =>
          (effected.source = librosa_example <=> ~fileUploaded)

\* C8 amended: each run loads one source, the sample clip exactly when the
\* uploader holds no file in that run and the held file otherwise; the buffer
\* plotted, played and rendered is the loaded one; while the uploader holds a
\* file the sample clip is not the one rendered.
C8_OneSourcePerRun ==
    /\ Len(loaded) <= 1
    /\ pc \notin {"start", "sidebar", "uploader", "load"} => Len(loaded) = 1
    /\ loaded # <<>> =>
          loaded[1] = IF uploader = NoFile THEN librosa_example ELSE uploader
    /\ audio # NoAudio => audio.source = loaded[1]
    /\ \A i \in DOMAIN ui :
          (ui[i].label \in {"input", "Currently loaded audio file"})
             => ui[i].data = audio
    /\ effected # NoAudio =>
          /\ effected.source = audio.source
          /\ effected.samples = audio.samples
    /\ (uploader # NoFile /\ effected # NoAudio)
          => effected.source # librosa_example

C8_Witness ==
    /\ pc = "done"
    /\ uploader = "good.wav"
    /\ effected.source = "good.wav"
    /\ Len(ui) >= 7

\* C9: every parameter of every plugin handed to render is the value of the
\* slider of the same name, and the sliders of an unchecked effect are not
\* even read.
C9_ParametersFromSliders ==
    pc = "render" =>
        /\ \A i \in DOMAIN board.plugins :
              LET p == board.plugins[i]
              IN  /\ p.plugin = "Compressor" =>
                        /\ p.threshold_db = slider["compressor_threshold_db"]
                        /\ p.ratio = slider["compressor_ratio"]
                        /\ p.attack_ms = slider["compressor_attack_ms"]
                        /\ p.release_ms = slider["compressor_release_ms"]
                  /\ p.plugin = "Gain" => p.gain_db = slider["gain_db"]
                  /\ p.plugin = "Reverb" =>
                        /\ p.room_size = slider["reverb_room_size"]
                        /\ p.damping = slider["reverb_damping"]
                        /\ p.wet_level = slider["reverb_wet_level"]
                        /\ p.dry_level = slider["reverb_dry_level"]
                        /\ p.width = slider["reverb_width"]
                        /\ p.freeze_mode = slider["reverb_freeze_mode"]
        /\ \A e \in Implemented :
              ~checkbox[e] =>
                  /\ Count(board.plugins, PluginOf(e)) = 0
                  /\ \A s \in SlidersOf(e) : selected[s] = Unset

C9_Witness ==
    /\ pc = "render"
    /\ checkbox["compressor"]
    /\ ~checkbox["gain"]
    /\ slider["gain_db"] # SliderDefault["gain_db"]
    /\ Len(board.plugins) >= 1

\* C10 as stated: the WAV file given to the input player holds the loaded
\* audio normalized to 16 bit, the one given to the output player holds the
\* rendered audio as it is.
C10_InputNormalized ==
    \A i \in DOMAIN ui :
        /\ ui[i].label = "Currently loaded audio file"
              => ui[i].data = _normalize_16_bit(audio)
        /\ (ui[i].widget = "audio" /\ ui[i].label = "output")
              => ui[i].data = effected

====
